---------------------------- MODULE Spec2Model ----------------------------
(***************************************************************************)
(* A model of libs/image/include/image/ColorTransform.h: the sRGB transfer *)
(* functions, the RGBM codec, the four packers (LinearImage -> integer     *)
(* buffer) and the two unpackers (integer buffer -> LinearImage).          *)
(*                                                                         *)
(* C++ `float` is modelled as IEEE-754 binary32 with round-to-nearest-even:*)
(* a value is a record [s, m, e] standing for (-1)^s * m * 2^e, with       *)
(* m = 0 (zero) or 2^23 <= m < 2^24.  The exponent is unbounded: NaN,      *)
(* infinities and subnormals are outside the model.  TLC's integers are    *)
(* 32 bits wide, so wide products and quotients are computed in limbs.     *)
(***************************************************************************)
EXTENDS Integers, Sequences, FiniteSets

(***************************************************************************)
(* binary32 arithmetic                                                     *)
(***************************************************************************)
\* float: 24 significant bits
MantBits == 24

Mk(s, m, e) == [s |-> s, m |-> m, e |-> e]

Zero == Mk(0, 0, 0)

IsZero(a) == a.m = 0

RECURSIVE BitLen(_)
BitLen(n) == IF n = 0 THEN 0 ELSE 1 + BitLen(n \div 2)

\* Round-to-nearest-even of (n + t) * 2^e, 0 <= t < 1, t > 0 iff sticky.
Round(s, n, sticky, e) ==
    IF n = 0 THEN Zero
    ELSE LET k == BitLen(n) - MantBits IN
         IF k <= 0 THEN Mk(s, n * 2^(0 - k), e + k)
         ELSE LET q    == n \div 2^k
                  r    == n % 2^k
                  half == 2^(k - 1)
                  up   == r > half \/ (r = half /\ (sticky \/ q % 2 = 1))
                  m1   == IF up THEN q + 1 ELSE q
              IN  IF m1 = 2^MantBits THEN Mk(s, 2^(MantBits - 1), e + k + 1)
                  ELSE Mk(s, m1, e + k)

\* int -> float, 0 <= n < 2^30
FromInt(n) == Round(0, n, FALSE, 0)

FNeg(a) == IF IsZero(a) THEN a ELSE Mk(1 - a.s, a.m, a.e)

FAbs(a) == Mk(0, a.m, a.e)

\* |a| < |b|
MagLt(a, b) ==
    IF IsZero(b) THEN FALSE
    ELSE IF IsZero(a) THEN TRUE
    ELSE a.e < b.e \/ (a.e = b.e /\ a.m < b.m)

\* a < b
FLt(a, b) ==
    IF a.s = 0 /\ b.s = 0 THEN MagLt(a, b)
    ELSE IF a.s = 1 /\ b.s = 1 THEN MagLt(b, a)
    ELSE IF a.s = 1 THEN ~(IsZero(a) /\ IsZero(b))
    ELSE FALSE

\* a <= b
FLe(a, b) == ~FLt(b, a)

\* a * b
FMul(a, b) ==
    IF IsZero(a) \/ IsZero(b) THEN Zero
    ELSE LET ah  == a.m \div 4096
             al  == a.m % 4096
             bh  == b.m \div 4096
             bl  == b.m % 4096
             mid == ah * bl + al * bh
             low == (mid % 4096) * 4096 + al * bl
             H   == ah * bh + mid \div 4096 + low \div 2^24
             L   == low % 2^24
         IN  Round((a.s + b.s) % 2, H * 64 + L \div 2^18, L % 2^18 # 0,
                   a.e + b.e + 18)

\* a / b, b # 0
FDiv(a, b) ==
    IF IsZero(a) THEN Zero
    ELSE LET n1 == a.m * 128
             q1 == n1 \div b.m
             n2 == (n1 % b.m) * 128
             q2 == n2 \div b.m
             n3 == (n2 % b.m) * 128
             q3 == n3 \div b.m
             n4 == (n3 % b.m) * 128
             q4 == n4 \div b.m
         IN  Round((a.s + b.s) % 2, ((q1 * 128 + q2) * 128 + q3) * 128 + q4,
                   n4 % b.m # 0, a.e - b.e - 28)

\* a + b
FAdd(a, b) ==
    IF IsZero(a) THEN b
    ELSE IF IsZero(b) THEN a
    ELSE LET big   == IF MagLt(a, b) THEN b ELSE a
             small == IF MagLt(a, b) THEN a ELSE b
             d     == big.e - small.e
             X     == big.m * 8
             s8    == small.m * 8
             Y     == IF d >= 27 THEN 0 ELSE s8 \div 2^d
             st    == IF d >= 27 THEN TRUE ELSE s8 % 2^d # 0
         IN  IF big.s = small.s THEN Round(big.s, X + Y, st, big.e - 3)
             ELSE Round(big.s, X - Y - (IF st THEN 1 ELSE 0), st, big.e - 3)

\* a - b
FSub(a, b) == FAdd(a, FNeg(b))

\* one step of the digit-by-digit square root: pairs 25..13 are the bit pairs
\* of m, pairs 12..0 are zero
RECURSIVE SqrtPairs(_, _, _, _)
SqrtPairs(m, i, root, rem) ==
    IF i < 0 THEN <<root, rem>>
    ELSE LET pair == IF i >= 13 THEN (m \div 4^(i - 13)) % 4 ELSE 0
             r4   == rem * 4 + pair
             cand == 4 * root + 1
         IN  IF r4 >= cand THEN SqrtPairs(m, i - 1, 2 * root + 1, r4 - cand)
             ELSE SqrtPairs(m, i - 1, 2 * root, r4)

\* sqrt(a), a >= 0
FSqrt(a) ==
    IF IsZero(a) THEN Zero
    ELSE LET odd == a.e % 2 = 1
             m0  == IF odd THEN 2 * a.m ELSE a.m
             e0  == IF odd THEN a.e - 1 ELSE a.e
             rr  == SqrtPairs(m0, 25, 0, 0)
         IN  Round(0, rr[1], rr[2] # 0, (e0 - 26) \div 2)

\* ceil(a)
FCeil(a) ==
    IF IsZero(a) \/ a.e >= 0 THEN a
    ELSE LET k == 0 - a.e
             q == IF k >= MantBits THEN 0 ELSE a.m \div 2^k
             r == IF k >= MantBits THEN a.m ELSE a.m % 2^k
         IN  IF a.s = 0 THEN FromInt(IF r # 0 THEN q + 1 ELSE q)
             ELSE FNeg(FromInt(q))


\* a decimal literal num/den written in the source, rounded to float
Lit(num, den) == FDiv(FromInt(num), FromInt(den))

One == FromInt(1)

(***************************************************************************)
(* math:: helpers of the vector library (std::max is the C++ library's)    *)
(***************************************************************************)
\* std::max(a, b): (a < b) ? b : a
StdMax(a, b) == IF FLt(a, b) THEN b ELSE a

\* math::clamp(v, min, max)
clamp(v, lo, hi) == IF FLt(v, lo) THEN lo ELSE IF FLt(hi, v) THEN hi ELSE v

\* math::saturate(v)
saturate(v) == clamp(v, Zero, One)

(***************************************************************************)
(* RGBM codec                                                              *)
(***************************************************************************)
\* the range of the encoding: RGBM.rgb /= 16.0f, rgbm.a * 16.0f
RGBMRange == 16

\* the multiplier is quantized to steps of 1 / 255.0f
MSteps == 255

F16 == FromInt(RGBMRange)

F255 == FromInt(MSteps)

\* 1.0f / 16.0f
OneOver16 == FDiv(One, F16)

\* 1e-6f
Epsilon == Lit(1, 1000000)

\* RGBM.rgb = sqrt(RGBM.rgb); RGBM.rgb /= 16.0f
GammaRange(linear) == [i \in 1..3 |-> FDiv(FSqrt(linear[i]), F16)]

\* std::max(std::max(RGBM.r, RGBM.g), std::max(RGBM.b, 1e-6f))
maxComponent(g) == StdMax(StdMax(g[1], g[2]), StdMax(g[3], Epsilon))

\* the multiplier without its clamp to [1/16, 1]
UnclampedMax(g) == maxComponent(g)

\* RGBM.a = clamp(maxComponent, 1/16, 1)
ClampedMax(g) == clamp(maxComponent(g), OneOver16, One)

\* floor(a), by way of ceil
FFloor(a) == FNeg(FCeil(FNeg(a)))

\* the multiplier rounded down to a step: std::floor for std::ceil
QuantizeDown(a) == FDiv(FFloor(FMul(a, F255)), F255)

\* the multiplier rounded to the nearest step: std::round for std::ceil
QuantizeNearest(a) ==
    FDiv(FFloor(FAdd(FMul(a, F255), FDiv(One, FromInt(2)))), F255)

\* RGBM.a = std::ceil(RGBM.a * 255.0f) / 255.0f
Quantize(a) == FDiv(FCeil(FMul(a, F255)), F255)

\* RGBM.rgb / RGBM.a, the operand of the final saturate
Mantissa(g, M) == [i \in 1..3 |-> FDiv(g[i], M)]

linearToRGBM(linear) ==
    LET g == GammaRange(linear)
        M == Quantize(ClampedMax(g))
        q == Mantissa(g, M)
    IN  <<saturate(q[1]), saturate(q[2]), saturate(q[3]), M>>

\* the decoder without its return to linear space: linear, not linear * linear
RGBMtoLinearGamma(rgbm) ==
    LET k == FMul(rgbm[4], F16)
    IN  [i \in 1..3 |-> FMul(rgbm[i], k)]

RGBMtoLinear(rgbm) ==
    LET k == FMul(rgbm[4], F16)
        l == [i \in 1..3 |-> FMul(rgbm[i], k)]
    IN  <<FMul(l[1], l[1]), FMul(l[2], l[2]), FMul(l[3], l[3])>>

(***************************************************************************)
(* std::pow.  The library function is not correctly rounded and its code   *)
(* is not part of the repository; it is modelled as the real power         *)
(* x^(num/den), with the exponents 2.4f and 1/2.4f taken as 12/5 and 5/12, *)
(* evaluated on 30-bit significands <<m, e>> (2^29 <= m < 2^30, value      *)
(* m * 2^e) and rounded to float: within one unit in the last place of     *)
(* the real power.                                                         *)
(***************************************************************************)
\* significant bits of the intermediate results of pow
WideBits == 30

\* a * b, truncated
WMul(a, b) ==
    LET ah  == a[1] \div 32768
        al  == a[1] % 32768
        bh  == b[1] \div 32768
        bl  == b[1] % 32768
        mid == ah * bl + al * bh + (al * bl) \div 32768
        T   == ah * bh + mid \div 32768
    IN  IF T >= 2^(WideBits - 1) THEN <<T, a[2] + b[2] + WideBits>>
        ELSE <<2 * T + (mid % 32768) \div 16384, a[2] + b[2] + WideBits - 1>>

\* t^n, n >= 1
RECURSIVE WPow(_, _)
WPow(t, n) ==
    IF n = 1 THEN t
    ELSE IF n % 2 = 0 THEN LET h == WPow(t, n \div 2) IN WMul(h, h)
    ELSE WMul(WPow(t, n - 1), t)

\* a <= b
WLe(a, b) == a[2] < b[2] \/ (a[2] = b[2] /\ a[1] <= b[1])

\* the largest significand mt, from the bits below bit onwards, with
\* (mt * 2^(1 - WideBits))^n <= target
RECURSIVE RootBits(_, _, _, _)
RootBits(target, n, mt, bit) ==
    IF bit < 0 THEN mt
    ELSE IF WLe(WPow(<<mt + 2^bit, 1 - WideBits>>, n), target)
         THEN RootBits(target, n, mt + 2^bit, bit - 1)
         ELSE RootBits(target, n, mt, bit - 1)

\* std::pow(x, num/den), x >= 0
Pow(x, num, den) ==
    IF IsZero(x) THEN Zero
    ELSE LET k  == (x.e + MantBits - 1) \div den
             tg == <<x.m * 2^(WideBits - MantBits),
                     x.e - (WideBits - MantBits) - den * k>>
             mt == RootBits(tg, den, 2^(WideBits - 1), WideBits - 2)
             y  == WPow(<<mt, 1 - WideBits>>, num)
         IN  Round(0, y[1], FALSE, y[2] + num * k)

(***************************************************************************)
(* sRGB transfer functions                                                 *)
(***************************************************************************)
\* constexpr float a = 0.055f
SrgbA == Lit(55, 1000)

\* constexpr float a1 = 1.055f
SrgbA1 == Lit(1055, 1000)

\* 12.92f
SrgbSlope == Lit(1292, 100)

\* 0.0031308f, the breakpoint of the linear -> sRGB direction
LinearBreak == Lit(31308, 10000000)

\* 0.04045f, the breakpoint of the sRGB -> linear direction
SrgbBreak == Lit(4045, 100000)

\* linear[i] * 12.92f
EncodeLow(x) == FMul(x, SrgbSlope)

\* a1 * std::pow(linear[i], p) - a, p = 1 / 2.4f
EncodeHigh(x) == FSub(FMul(SrgbA1, Pow(x, 5, 12)), SrgbA)

\* sRGB[i] * (1.0f / 12.92f)
DecodeLow(x) == FMul(x, FDiv(One, SrgbSlope))

\* the power branch without the offset a: std::pow(sRGB[i] / a1, p)
DecodeHighNoOffset(x) == Pow(FDiv(x, SrgbA1), 12, 5)

\* std::pow((sRGB[i] + a) / a1, p), p = 2.4f
DecodeHigh(x) == Pow(FDiv(FAdd(x, SrgbA), SrgbA1), 12, 5)

\* float linearTosRGB(float linear)
linearTosRGB(linear) ==
    IF FLe(linear, LinearBreak) THEN EncodeLow(linear) ELSE EncodeHigh(linear)

\* one channel of sRGBToLinear
sRGBChannelToLinear(sRGB) ==
    IF FLe(sRGB, SrgbBreak) THEN DecodeLow(sRGB) ELSE DecodeHigh(sRGB)

\* template <typename T> float3 linearTosRGB(const T& linear)
linearTosRGB3(linear) ==
    <<linearTosRGB(linear[1]), linearTosRGB(linear[2]),
      linearTosRGB(linear[3])>>

\* float3 linearToSRGB(const float3& color):
\* (powf(c, 1.0f / 2.4f) * 1.055f) - 0.055f, the same products as linearTosRGB
linearToSRGB(color) == [i \in 1..Len(color) |-> linearTosRGB(color[i])]

\* float3 sRGBToLinear(const float3& sRGB)
sRGBToLinear3(sRGB) ==
    <<sRGBChannelToLinear(sRGB[1]), sRGBChannelToLinear(sRGB[2]),
      sRGBChannelToLinear(sRGB[3])>>

\* the loop of sRGBToLinear<float4> run over all four components
sRGBToLinearAllFour(sRGB) == [i \in 1..4 |-> sRGBChannelToLinear(sRGB[i])]

\* float4 sRGBToLinear(const float4& sRGB): linear[3] = sRGB[3]
sRGBToLinear4(sRGB) ==
    <<sRGBChannelToLinear(sRGB[1]), sRGBChannelToLinear(sRGB[2]),
      sRGBChannelToLinear(sRGB[3]), sRGB[4]>>

(***************************************************************************)
(* Integer samples of type T.  A sample is <<hi, lo>>, standing for        *)
(* hi * 2^16 + lo, so that a 32-bit T fits.                                *)
(***************************************************************************)
Sample(n) == <<n \div 65536, n % 65536>>

NoSample == <<0 - 1, 0 - 1>>

\* std::numeric_limits<T>::max(), T unsigned and bits wide
SampleMax(bits) ==
    IF bits <= 16 THEN <<0, 2^bits - 1>> ELSE <<2^(bits - 16) - 1, 65535>>

SampleLe(a, b) == a[1] < b[1] \/ (a[1] = b[1] /\ a[2] <= b[2])

\* the conversion T -> float (rounds when T has more than 24 bits)
SampleToFloat(v) ==
    IF v[1] < 32768 THEN FromInt(v[1] * 65536 + v[2])
    ELSE Round(0, v[1] * 16384 + v[2] \div 4, v[2] % 4 # 0, 2)

\* float(std::numeric_limits<T>::max()), the scale of every packer
MaxAsFloat(bits) == SampleToFloat(SampleMax(bits))

\* l truncated toward zero, 0 <= l < 2^32
Truncate(l) ==
    IF IsZero(l) \/ l.e <= 0 - MantBits THEN Sample(0)
    ELSE IF l.e <= 0 THEN Sample(l.m \div 2^(0 - l.e))
    ELSE <<l.m \div 2^(16 - l.e), (l.m % 2^(16 - l.e)) * 2^l.e>>

\* the truncated value is representable in T
InRange(l, bits) ==
    IF IsZero(l) THEN TRUE
    ELSE IF l.s = 1 THEN l.e <= 0 - MantBits
    ELSE MantBits + l.e <= bits

\* T(l): the truncation when it is representable.  Otherwise the conversion
\* is undefined and the result is the build's: a build that converts to a
\* wider integer and keeps the low bits (x86-64) yields 0 for 2^bits, a
\* build with a saturating conversion (AArch64) yields max(T)
CastToT(l, bits, wrap) ==
    IF InRange(l, bits) THEN Truncate(l)
    ELSE IF wrap THEN Sample(0) ELSE SampleMax(bits)

(***************************************************************************)
(* State                                                                   *)
(***************************************************************************)
VARIABLES
    \* a call of linearToRGBM followed by RGBMtoLinear
    linear, RGBM, decoded, cpc,
    \* a call of a transfer function followed by its inverse
    dir, color, converted, restored, tpc,
    \* a call of a packer fromLinearTo...<T>(image)
    packer, bits, ndebug, wraps, image, pc, x, y, p, d, allocated, dst,
    writes, oob, order,
    \* a call of an unpacker toLinear<T> / toLinearWithAlpha<T>
    entry, size, w, h, bpr, src, proc, transform, traps, upc, ux, uy, up,
    ud, result, reads

codecVars == <<linear, RGBM, decoded, cpc>>

transferVars == <<dir, color, converted, restored, tpc>>

packArgs == <<packer, bits, ndebug, wraps, image>>

packVars == <<packArgs, pc, x, y, p, d, allocated, dst,
              writes, oob, order>>

unpackArgs == <<entry, size, w, h, bpr, src, proc, transform, traps>>

unpackVars == <<unpackArgs, upc, ux, uy, up, ud, result, reads>>

vars == <<codecVars, transferVars, packVars, unpackVars>>

\* the calls that a specification does not make
CodecIdle == linear = <<>> /\ RGBM = <<>> /\ decoded = <<>> /\ cpc = "idle"

TransferIdle ==
    dir = "none" /\ color = <<>> /\ converted = <<>> /\ restored = <<>>
    /\ tpc = "idle"

PackIdle ==
    /\ packer = "none" /\ bits = 0 /\ ndebug = FALSE /\ wraps = FALSE
    /\ image = <<>>
    /\ pc = "idle" /\ x = 0 /\ y = 0 /\ p = 0 /\ d = 0 /\ allocated = FALSE
    /\ dst = <<>> /\ writes = <<>> /\ oob = FALSE /\ order = <<>>

UnpackIdle ==
    /\ entry = "none" /\ size = 0 /\ w = 0 /\ h = 0 /\ bpr = 0 /\ src = <<>>
    /\ proc = "none" /\ transform = "none" /\ traps = FALSE
    /\ upc = "idle" /\ ux = 0
    /\ uy = 0 /\ up = 0 /\ ud = 0 /\ result = <<>> /\ reads = {}

(***************************************************************************)
(* The LinearImage container: width * height pixels of `channels` floats,  *)
(* row-major.  data[k + 1] is the float at offset k of the storage.        *)
(***************************************************************************)
\* float* LinearImage::getPixelRef(column, row), as an offset into the data
getPixelRef(img, column, row) == (row * img.width + column) * img.channels

\* the float at an offset: past the end of the storage the read is undefined
\* and yields whatever lies there
Garbage == {Zero, FromInt(2)}

Load(img, off) ==
    IF off < Len(img.data) THEN {img.data[off + 1]} ELSE Garbage

(***************************************************************************)
(* Bounds and inputs of the packer calls                                   *)
(***************************************************************************)
MaxW == 2

MaxH == 2

\* the channel counts of the images
ChannelCounts == {1, 2, 3, 4}

\* the images differ by the rotation of the pixel values
Rotations == {0, 2, 4, 6}

\* the widths of T
Widths == {8, 16, 32}

Half == FDiv(One, FromInt(2))

\* the floats next to 1.0f
BelowOne == Mk(0, 2^MantBits - 1, 0 - MantBits)

AboveOne == Mk(0, 2^(MantBits - 1) + 1, 1 - MantBits)

PixelValues ==
    <<FNeg(Half), Zero, Half, BelowOne, One, AboveOne, FromInt(300),
      Lit(1, 1000)>>

ImageData(n, rot, nonneg) ==
    [k \in 1..n |->
        LET v == PixelValues[((rot + 3 * (k - 1)) % Len(PixelValues)) + 1]
        IN  IF nonneg THEN FAbs(v) ELSE v]

\* linearToRGBM takes the square root of its input: the images given to
\* fromLinearToRGBM hold no negative value
Images(k) ==
    {[width |-> iw, height |-> ih, channels |-> c,
      data |-> ImageData(iw * ih * c, rot, k = "RGBM")] :
        iw \in 0..MaxW, ih \in 0..MaxH, c \in ChannelCounts,
        rot \in Rotations}

Packers == {"sRGB", "RGB", "RGBM", "Grayscale"}

(***************************************************************************)
(* Packers: fromLinearTosRGB, fromLinearToRGB, fromLinearToRGBM,           *)
(* fromLinearToGrayscale                                                   *)
(***************************************************************************)
\* the elements written per pixel: d += 3, d += 4, ++d
OutChannels(k) == CASE k = "RGBM" -> 4 [] k = "Grayscale" -> 1 [] OTHER -> 3

\* a packer without its assert
AssertOmitted(k, img) == TRUE

\* assert(channels >= 3) / assert(image.getChannels() == 1)
AssertHolds(k, img) ==
    IF k = "Grayscale" THEN img.channels = 1 ELSE img.channels >= 3

\* float3 * std::numeric_limits<T>::max()
Scale(v, b) == [i \in 1..Len(v) |-> FMul(v[i], MaxAsFloat(b))]

Saturate3(v) == <<saturate(v[1]), saturate(v[2]), saturate(v[3])>>

\* the float vector l of a pixel, before the cast to T
PackedPixel(k, v, b) ==
    CASE k = "sRGB"      -> Scale(linearTosRGB3(Saturate3(v)), b)
      [] k = "RGB"       -> Scale(Saturate3(v), b)
      [] k = "RGBM"      -> Scale(linearToRGBM(v), b)
      [] k = "Grayscale" -> Scale(<<saturate(v[1])>>, b)

\* d[i] = T(l[i]) for every channel of l
Casts(l, b, wrap) == [i \in 1..Len(l) |-> CastToT(l[i], b, wrap)]

\* d[i] = cs[i + 1], i < Len(cs): elements at and past the end are not stored
Store(buf, at, cs) ==
    [k \in 1..Len(buf) |->
        IF k - 1 >= at /\ k - 1 < at + Len(cs) THEN cs[k - at] ELSE buf[k]]

Count(cnt, at, n) ==
    [k \in 1..Len(cnt) |->
        IF k - 1 >= at /\ k - 1 < at + n THEN cnt[k] + 1 ELSE cnt[k]]

\* a packer call leaves the other calls' state alone
PackFrame == UNCHANGED <<codecVars, transferVars, unpackVars>>

InitPack ==
    /\ packer \in Packers
    /\ bits \in Widths
    /\ ndebug \in BOOLEAN
    /\ wraps \in (IF bits > MantBits THEN BOOLEAN ELSE {FALSE})
    /\ image \in Images(packer)
    /\ pc = "call" /\ x = 0 /\ y = 0 /\ p = 0 /\ d = 0
    /\ allocated = FALSE /\ dst = <<>> /\ writes = <<>>
    /\ oob = FALSE /\ order = <<>>
    /\ CodecIdle /\ TransferIdle /\ UnpackIdle

\* the assertion fails: the call aborts
AssertFails ==
    /\ pc = "call"
    /\ ~ndebug /\ ~AssertHolds(packer, image)
    /\ pc' = "aborted"
    /\ UNCHANGED <<packArgs, x, y, p, d, allocated, dst,
                   writes, oob, order>>
    /\ PackFrame

\* the assertion holds, or NDEBUG compiled it out:
\* dst(new uint8_t[w * h * C * sizeof(T)]); d = dst.get(); y = 0
Allocate ==
    /\ pc = "call"
    /\ ndebug \/ AssertHolds(packer, image)
    /\ LET n == image.width * image.height * OutChannels(packer)
       IN  /\ dst' = [k \in 1..n |-> NoSample]
           /\ writes' = [k \in 1..n |-> 0]
    /\ allocated' = TRUE
    /\ d' = 0 /\ y' = 0
    /\ pc' = "row"
    /\ UNCHANGED <<packArgs, x, p, oob, order>>
    /\ PackFrame

\* y < h: x = 0 (and p = image.getPixelRef(0, y) in fromLinearToGrayscale)
RowBegin ==
    /\ pc = "row"
    /\ y < image.height
    /\ x' = 0
    /\ p' = IF packer = "Grayscale" THEN getPixelRef(image, 0, y) ELSE p
    /\ pc' = "pixel"
    /\ UNCHANGED <<packArgs, y, d, allocated, dst, writes,
                   oob, order>>
    /\ PackFrame

\* the pixel loop without its d += C
WritePixelInPlace(v) ==
    LET l == PackedPixel(packer, v, bits)
    IN  /\ dst' = Store(dst, d, Casts(l, bits, wraps))
        /\ writes' = Count(writes, d, Len(l))
        /\ oob' = (oob \/ d + Len(l) > Len(dst))
        /\ order' = Append(order, <<x, y>>)
        /\ d' = d
        /\ x' = x + 1

\* d[i] = T(l[i]) for the channels of the pixel loaded into v
WritePixel(v) ==
    LET l == PackedPixel(packer, v, bits)
    IN  /\ dst' = Store(dst, d, Casts(l, bits, wraps))
        /\ writes' = Count(writes, d, Len(l))
        /\ oob' = (oob \/ d + Len(l) > Len(dst))
        /\ order' = Append(order, <<x, y>>)
        /\ d' = d + OutChannels(packer)
        /\ x' = x + 1

\* auto src = image.get<float3>(x, y): the three floats at getPixelRef(x, y)
LoadFloat3 ==
    LET off == getPixelRef(image, x, y)
    IN  Load(image, off) \X Load(image, off + 1) \X Load(image, off + 2)

StepTosRGB ==
    /\ pc = "pixel" /\ packer = "sRGB"
    /\ x < image.width
    /\ \E v \in LoadFloat3 : WritePixel(v)
    /\ UNCHANGED <<packArgs, pc, y, p, allocated>>
    /\ PackFrame

StepToRGB ==
    /\ pc = "pixel" /\ packer = "RGB"
    /\ x < image.width
    /\ \E v \in LoadFloat3 : WritePixel(v)
    /\ UNCHANGED <<packArgs, pc, y, p, allocated>>
    /\ PackFrame

StepToRGBM ==
    /\ pc = "pixel" /\ packer = "RGBM"
    /\ x < image.width
    /\ \E v \in LoadFloat3 : WritePixel(v)
    /\ UNCHANGED <<packArgs, pc, y, p, allocated>>
    /\ PackFrame

\* gray = saturate(*p) * max; d[0] = T(gray); ++x, ++p, ++d
StepToGrayscale ==
    /\ pc = "pixel" /\ packer = "Grayscale"
    /\ x < image.width
    /\ \E g \in Load(image, p) : WritePixel(<<g>>)
    /\ p' = p + 1
    /\ UNCHANGED <<packArgs, pc, y, allocated>>
    /\ PackFrame

\* x = w: ++y
RowEnd ==
    /\ pc = "pixel"
    /\ x = image.width
    /\ y' = y + 1
    /\ pc' = "row"
    /\ UNCHANGED <<packArgs, x, p, d, allocated, dst,
                   writes, oob, order>>
    /\ PackFrame

\* y = h: return dst
Return ==
    /\ pc = "row"
    /\ y = image.height
    /\ pc' = "returned"
    /\ UNCHANGED <<packArgs, x, y, p, d, allocated, dst,
                   writes, oob, order>>
    /\ PackFrame

NextPack ==
    \/ AssertFails
    \/ Allocate
    \/ RowBegin
    \/ StepTosRGB
    \/ StepToRGB
    \/ StepToRGBM
    \/ StepToGrayscale
    \/ RowEnd
    \/ Return

SpecPack == InitPack /\ [][NextPack]_vars

(***************************************************************************)
(* Properties of the packers                                               *)
(***************************************************************************)
\* the channel-count precondition of the packer called
ChannelCountOk ==
    IF packer = "Grayscale" THEN image.channels = 1 ELSE image.channels >= 3

\* the pixels swept so far
Swept == Len(order)

\* the float the source image holds in channel i (from 0) of pixel (px, py)
SourceChannel(px, py, i) == image.data[getPixelRef(image, px, py) + i + 1]

\* the element of the destination for channel i (from 0) of pixel (px, py)
DestElement(px, py, i) ==
    dst[(py * image.width + px) * OutChannels(packer) + i + 1]

SweptPixels ==
    {<<(j - 1) % image.width, (j - 1) \div image.width>> : j \in 1..Swept}

\* C1 as claimed: fromLinearToRGB<T> writes max(T) for a component above 1,
\* 0 for a component below 0, and a sample in [0, max(T)] for every component
C1_SaturatesForEveryT ==
    (packer = "RGB" /\ allocated /\ ChannelCountOk) =>
        \A q \in SweptPixels : \A i \in 0..2 :
            LET s == SourceChannel(q[1], q[2], i)
                t == DestElement(q[1], q[2], i)
            IN  /\ FLt(One, s) => t = SampleMax(bits)
                /\ FLt(s, Zero) => t = Sample(0)
                /\ SampleLe(Sample(0), t) /\ SampleLe(t, SampleMax(bits))

\* the same statement for the types T whose max(T) is a float: it holds
C1_SaturatesUpTo24Bits == bits <= MantBits => C1_SaturatesForEveryT

\* a returned 8-bit image with a component above 1 written as 255 and a
\* component below 0 written as 0
C1_Witness ==
    /\ pc = "returned" /\ packer = "RGB" /\ bits = 8 /\ ChannelCountOk
    /\ \E q \in SweptPixels : \E i \in 0..2 :
           /\ FLt(One, SourceChannel(q[1], q[2], i))
           /\ DestElement(q[1], q[2], i) = Sample(255)
    /\ \E q \in SweptPixels : \E i \in 0..2 :
           /\ FLt(SourceChannel(q[1], q[2], i), Zero)
           /\ DestElement(q[1], q[2], i) = Sample(0)

\* C6 as claimed: a call whose precondition is violated never gets past the
\* check, whatever the build
C6_AlwaysFailsFast ==
    (pc # "idle" /\ ~ChannelCountOk) =>
        pc \in {"call", "aborted"} /\ ~allocated /\ dst = <<>>

\* C6, amended: with assertions compiled in (NDEBUG not defined) a call
\* whose channel-count precondition is violated aborts before allocating or
\* writing anything and never returns; a call whose precondition holds never
\* aborts and returns only after the full width x height sweep
C6_FailsFastInDebugBuilds ==
    /\ (pc # "idle" /\ ~ChannelCountOk /\ ~ndebug) =>
            /\ pc \in {"call", "aborted"}
            /\ ~allocated /\ dst = <<>> /\ Swept = 0
    /\ (pc # "idle" /\ ChannelCountOk) =>
            /\ pc # "aborted"
            /\ pc = "returned" => Swept = image.width * image.height

C6_Witness ==
    pc = "aborted" /\ packer = "Grayscale" /\ image.channels = 3
    /\ image.width = 2 /\ image.height = 2

\* C8: every packer sweeps the pixels in row-major order, writes channel i
\* of pixel (x, y) to element (y * w + x) * C + i, writes each of the
\* w * h * C elements exactly once and nothing outside them, and stops
\* after w * h pixels
C8_RowMajorTightlyPacked ==
    allocated =>
        LET C == CASE packer = "RGBM" -> 4 [] packer = "Grayscale" -> 1
                   [] OTHER -> 3
            n == image.width * image.height
        IN  /\ Len(dst) = n * C
            /\ ~oob
            /\ Swept <= n
            /\ \A j \in 1..Swept :
                   order[j] =
                       <<(j - 1) % image.width, (j - 1) \div image.width>>
            /\ \A k \in 1..(n * C) :
                   /\ writes[k] = IF k <= Swept * C THEN 1 ELSE 0
                   /\ (dst[k] = NoSample) = (k > Swept * C)
            /\ (ChannelCountOk /\ pc = "returned") =>
                   \A j \in 1..Swept : \A i \in 0..(C - 1) :
                       LET px == (j - 1) % image.width
                           py == (j - 1) \div image.width
                           v  == [c \in 1..(IF C = 1 THEN 1 ELSE 3) |->
                                     SourceChannel(px, py, c - 1)]
                       IN  dst[(py * image.width + px) * C + i + 1] =
                               CastToT(PackedPixel(packer, v, bits)[i + 1],
                                       bits, wraps)
            /\ pc = "returned" => Swept = n
            /\ pc = "row" => y <= image.height
            /\ pc = "pixel" => y < image.height /\ x <= image.width
            /\ Swept = (IF pc = "pixel" THEN y * image.width + x
                        ELSE y * image.width)

C8_Witness ==
    /\ pc = "returned" /\ packer = "RGBM" /\ bits = 16
    /\ image.width = 2 /\ image.height = 2 /\ image.channels = 4
    /\ \A k \in 1..16 : writes[k] = 1

(***************************************************************************)
(* Calls of the RGBM codec: linearToRGBM on a linear colour, then          *)
(* RGBMtoLinear on the result (no integer quantization in between)         *)
(***************************************************************************)
\* the inputs are m * 2^(e - 23) for e in -CodecLowExp..CodecHighExp
CodecLowExp == 8

CodecHighExp == 9

\* floats e ulps above (below, e < 0) a positive float
NextUp(a) ==
    IF a.m = 2^MantBits - 1 THEN Mk(a.s, 2^(MantBits - 1), a.e + 1)
    ELSE Mk(a.s, a.m + 1, a.e)

NextDown(a) ==
    IF a.m = 2^(MantBits - 1) THEN Mk(a.s, 2^MantBits - 1, a.e - 1)
    ELSE Mk(a.s, a.m - 1, a.e)

Significands ==
    {2^(MantBits - 1), 2^(MantBits - 1) + 1, 3 * 2^(MantBits - 2), 11184811,
     2^MantBits - 1}

\* the linear value that encodes to the multiplier step k / 255
StepValue(k) ==
    LET t == FMul(F16, FDiv(FromInt(k), F255)) IN FMul(t, t)

StepsProbed == {16, 17, 100, 254, 255}

Components ==
    {Zero, Mk(0, 2^(MantBits - 1), 0 - 100)}
    \cup {Mk(0, m, e - (MantBits - 1)) :
            m \in Significands, e \in (0 - CodecLowExp)..CodecHighExp}
    \cup UNION {{NextDown(StepValue(k)), StepValue(k), NextUp(StepValue(k))} :
                  k \in StepsProbed}

\* a component in every channel, beside zeros, itself and 4.0f
TriplesOf(a) ==
    UNION {{<<a, b, c>>, <<b, a, c>>, <<b, c, a>>} :
            b \in {Zero, a, FromInt(4)}, c \in {Zero, a, FromInt(4)}}

CodecInputs == UNION {TriplesOf(a) : a \in Components}

CodecFrame == UNCHANGED <<transferVars, packVars, unpackVars>>

InitCodec ==
    /\ linear \in CodecInputs
    /\ RGBM = <<>> /\ decoded = <<>> /\ cpc = "input"
    /\ TransferIdle /\ PackIdle /\ UnpackIdle

Encode ==
    /\ cpc = "input"
    /\ RGBM' = linearToRGBM(linear)
    /\ cpc' = "encoded"
    /\ UNCHANGED <<linear, decoded>>
    /\ CodecFrame

Decode ==
    /\ cpc = "encoded"
    /\ decoded' = RGBMtoLinear(RGBM)
    /\ cpc' = "decoded"
    /\ UNCHANGED <<linear, RGBM>>
    /\ CodecFrame

NextCodec ==
    \/ Encode
    \/ Decode

SpecCodec == InitCodec /\ [][NextCodec]_vars

(***************************************************************************)
(* Properties of the RGBM codec                                            *)
(***************************************************************************)
IsEncoded == cpc \in {"encoded", "decoded"}

\* a float that is a whole number
IsWhole(a) == IsZero(a) \/ a.e >= 0 \/ a.m % 2^(0 - a.e) = 0

\* r, g, b: the square-rooted components divided by 16
Rgb == [i \in 1..3 |-> FDiv(FSqrt(linear[i]), F16)]

\* clamp(max(r, g, b, 1e-6), 1/16, 1)
ClampedMaxOfInput ==
    LET mx == StdMax(StdMax(Rgb[1], Rgb[2]), StdMax(Rgb[3], Lit(1, 1000000)))
    IN  clamp(mx, FDiv(One, FromInt(16)), One)

Black == <<Zero, Zero, Zero>>

\* C3 as claimed: black encodes to M = 1/16
C3_BlackIsOneSixteenth ==
    (IsEncoded /\ linear = Black) => RGBM[4] = FDiv(One, FromInt(16))

\* C3, amended: black encodes to M = 16/255, the step above 1/16, never 0
C3_BlackIsSixteen255ths ==
    (IsEncoded /\ linear = Black) =>
        /\ RGBM[4] = FDiv(FromInt(16), FromInt(255))
        /\ FLt(Zero, RGBM[4])
        /\ FLt(FDiv(One, FromInt(16)), RGBM[4])

C3_Witness == cpc = "encoded" /\ linear = Black

\* r, g, b divided by the quantized multiplier
Quotients == [i \in 1..3 |-> FDiv(Rgb[i], RGBM[4])]

\* C4 as claimed: for every non-negative input the quotients are at most 1
C4_NeverClips == IsEncoded => \A i \in 1..3 : FLe(Quotients[i], One)

\* the largest linear value RGBM represents: (1.0f * 16.0f)^2
MaxEncodable == FMul(FromInt(16), FromInt(16))

Encodable == \A i \in 1..3 : FLe(linear[i], MaxEncodable)

\* C4, amended: when no component exceeds 256 the quotients are at most 1
\* and the final saturate changes none of them
C4_NeverClipsUpTo256 ==
    (IsEncoded /\ Encodable) =>
        \A i \in 1..3 : FLe(Quotients[i], One) /\ RGBM[i] = Quotients[i]

C4_Witness ==
    /\ cpc = "encoded"
    /\ linear[1] = NextDown(StepValue(254))
    /\ linear[2] = linear[1]
    /\ FLt(ClampedMaxOfInput, RGBM[4])

\* relative tolerance of the float round trip
RoundTripTolerance == Lit(1, 1000)

InRoundTripRange == \A i \in 1..3 : FLe(linear[i], FromInt(16))

\* C5: components in [0, 16] come back within 1e-3 relative error
C5_FloatRoundTrip ==
    (cpc = "decoded" /\ InRoundTripRange) =>
        \A i \in 1..3 :
            FLe(FAbs(FSub(decoded[i], linear[i])),
                FMul(RoundTripTolerance, linear[i]))

C5_Witness ==
    /\ cpc = "decoded"
    /\ linear[1] = FromInt(16)
    /\ linear[2] = FromInt(4)
    /\ linear[3] = Zero
    /\ decoded[1] # Zero

(***************************************************************************)
(* Calls of the transfer functions: linearToSRGB then sRGBToLinear, and    *)
(* sRGBToLinear then linearToSRGB, on float3 colours in [0, 1]             *)
(***************************************************************************)
\* the inputs j / TransferGrid, j in 0..TransferGrid
TransferGrid == 32

\* the floats up to UlpSpan ulps around each breakpoint
UlpSpan == 2

\* the inputs 2^-k, k in 1..SmallExp
SmallExp == 12

RECURSIVE Ulps(_, _)
Ulps(a, n) ==
    IF n = 0 THEN a
    ELSE IF n > 0 THEN Ulps(NextUp(a), n - 1)
    ELSE Ulps(NextDown(a), n + 1)

GridValues ==
    [j \in 1..(TransferGrid + 1) |->
        FDiv(FromInt(j - 1), FromInt(TransferGrid))]

Around(a) == [u \in 1..(2 * UlpSpan + 1) |-> Ulps(a, u - UlpSpan - 1)]

SmallValues ==
    [k \in 1..SmallExp |-> Mk(0, 2^(MantBits - 1), 0 - (MantBits - 1) - k)]

TransferValues ==
    GridValues \o Around(LinearBreak) \o Around(SrgbBreak)
    \o Around(EncodeLow(LinearBreak)) \o Around(DecodeLow(SrgbBreak))
    \o SmallValues \o <<BelowOne>>

TransferInputs ==
    LET n == Len(TransferValues)
    IN  {<<TransferValues[i], TransferValues[(i % n) + 1],
           TransferValues[((i + 1) % n) + 1]>> : i \in 1..n}

TransferFrame == UNCHANGED <<codecVars, packVars, unpackVars>>

InitTransfer ==
    /\ dir \in {"encode", "decode"}
    /\ color \in TransferInputs
    /\ converted = <<>> /\ restored = <<>> /\ tpc = "input"
    /\ CodecIdle /\ PackIdle /\ UnpackIdle

ApplyLinearToSRGB ==
    /\ tpc = "input" /\ dir = "encode"
    /\ converted' = linearToSRGB(color)
    /\ tpc' = "converted"
    /\ UNCHANGED <<dir, color, restored>>
    /\ TransferFrame

ApplySRGBToLinear ==
    /\ tpc = "input" /\ dir = "decode"
    /\ converted' = sRGBToLinear3(color)
    /\ tpc' = "converted"
    /\ UNCHANGED <<dir, color, restored>>
    /\ TransferFrame

InvertWithSRGBToLinear ==
    /\ tpc = "converted" /\ dir = "encode"
    /\ restored' = sRGBToLinear3(converted)
    /\ tpc' = "restored"
    /\ UNCHANGED <<dir, color, converted>>
    /\ TransferFrame

InvertWithLinearToSRGB ==
    /\ tpc = "converted" /\ dir = "decode"
    /\ restored' = linearToSRGB(converted)
    /\ tpc' = "restored"
    /\ UNCHANGED <<dir, color, converted>>
    /\ TransferFrame

NextTransfer ==
    \/ ApplyLinearToSRGB
    \/ ApplySRGBToLinear
    \/ InvertWithSRGBToLinear
    \/ InvertWithLinearToSRGB

SpecTransfer == InitTransfer /\ [][NextTransfer]_vars

(***************************************************************************)
(* Properties of the transfer functions                                    *)
(***************************************************************************)
\* |a - b| <= tol
Close(a, b, tol) == FLe(FAbs(FSub(a, b)), tol)

RoundTripBound == Lit(1, 100000)

BreakBound == Lit(1, 1000000)

IsConverted == tpc \in {"converted", "restored"}

\* C10: both round trips return x within 1e-5 on [0, 1]; at each breakpoint
\* the value of the branch taken, the value of the other branch and the value
\* at the next float differ by at most 1e-6
C10_RoundTripAndContinuity ==
    /\ tpc = "restored" =>
            \A i \in 1..3 : Close(restored[i], color[i], RoundTripBound)
    /\ (IsConverted /\ dir = "encode") =>
            \A i \in 1..3 :
                /\ color[i] = Lit(31308, 10000000) =>
                        Close(converted[i],
                              FSub(FMul(Lit(1055, 1000), Pow(color[i], 5, 12)),
                                   Lit(55, 1000)),
                              BreakBound)
                /\ color[i] = NextUp(Lit(31308, 10000000)) =>
                        Close(converted[i],
                              FMul(Lit(31308, 10000000), Lit(1292, 100)),
                              BreakBound)
    /\ (IsConverted /\ dir = "decode") =>
            \A i \in 1..3 :
                /\ color[i] = Lit(4045, 100000) =>
                        Close(converted[i],
                              Pow(FDiv(FAdd(color[i], Lit(55, 1000)),
                                       Lit(1055, 1000)), 12, 5),
                              BreakBound)
                /\ color[i] = NextUp(Lit(4045, 100000)) =>
                        Close(converted[i],
                              FDiv(Lit(4045, 100000), Lit(1292, 100)),
                              BreakBound)

\* a round trip of a colour that straddles the linear breakpoint, one channel
\* on each branch, that does not return the exact input
C10_Witness ==
    /\ tpc = "restored" /\ dir = "encode"
    /\ color[1] = Lit(31308, 10000000)
    /\ color[2] = NextUp(Lit(31308, 10000000))
    /\ \E i \in 1..3 : restored[i] # color[i]

(***************************************************************************)
(* toLinear<T> and toLinearWithAlpha<T>: a blob of bytes, rows bpr bytes   *)
(* apart, to a LinearImage.  src[k + 1] is the byte at offset k; T is      *)
(* `size` bytes wide and read in the host's little-endian order.           *)
(***************************************************************************)
\* the rows of the blob carry up to MaxPad bytes of padding
MaxPad == 2

\* the first byte of the blobs tried
ByteSeeds == {0, 77, 200}

\* the byte at offset k of the blob that starts with `seed`
BlobByte(seed, k) == (seed + 37 * k) % 256

Entries == {"toLinear", "toLinearWithAlpha"}

\* result(w, h, 3) in toLinear, result(w, h, 4) in toLinearWithAlpha
Channels(e) == IF e = "toLinearWithAlpha" THEN 4 ELSE 3

\* LinearImage(width, height, channels): storage of zeros
LinearImage(width, height, channels) ==
    [width |-> width, height |-> height, channels |-> channels,
     data |-> [k \in 1..(width * height * channels) |-> Zero]]

\* the byte at offset off; a read past the blob yields 0
ByteAt(blob, off) == IF off < Len(blob) THEN blob[off + 1] ELSE 0

\* p[i] for a T const* p that points at byte offset at
\* and the byte offsets it covers
ElementAt(blob, at, i, sz) ==
    IF sz = 1 THEN ByteAt(blob, at + i)
    ELSE ByteAt(blob, at + 2 * i) + 256 * ByteAt(blob, at + 2 * i + 1)

BytesOf(at, i, sz) == {at + i * sz + k : k \in 0..(sz - 1)}

\* the PROCESS lambdas: [](T v) { return float(v); } and, for 16-bit data in
\* network order, [](uint16_t v) { return float(ntohs(v)); }
Process(pr, v) ==
    IF pr = "ntohs" THEN FromInt((v % 256) * 256 + (v \div 256))
    ELSE FromInt(v)

\* the TRANSFORM lambdas: identity, and sRGBToLinear at float3 or float4
Transform(tr, c) ==
    IF tr = "sRGBToLinear"
    THEN IF Len(c) = 4 THEN sRGBToLinear4(c) ELSE sRGBToLinear3(c)
    ELSE c

\* T const* p = reinterpret_cast<T const*>(src + y * bpr)
RowPointer(row, stride) == row * stride

\* p is not a multiple of alignof(T) away from the start of the blob, which
\* is aligned for T: reading p[i] is undefined
Misaligned(at, sz) == at % sz # 0

\* sRGB(proc(p[0]), ...); sRGB /= std::numeric_limits<T>::max()
Normalized(blob, at, n, sz, pr) ==
    [i \in 1..n |->
        FDiv(Process(pr, ElementAt(blob, at, i - 1, sz)), MaxAsFloat(8 * sz))]

UnpackFrame == UNCHANGED <<codecVars, transferVars, packVars>>

InitUnpack ==
    /\ entry \in Entries
    /\ size \in {1, 2}
    /\ w \in 0..MaxW /\ h \in 0..MaxH
    /\ \E pad \in 0..MaxPad : bpr = w * Channels(entry) * size + pad
    /\ \E seed \in ByteSeeds :
           src = [k \in 1..(h * bpr) |-> BlobByte(seed, k - 1)]
    /\ proc \in (IF size = 2 THEN {"cast", "ntohs"} ELSE {"cast"})
    /\ transform \in {"identity", "sRGBToLinear"}
    /\ traps \in (IF Misaligned(bpr, size) THEN BOOLEAN ELSE {FALSE})
    /\ upc = "call" /\ ux = 0 /\ uy = 0 /\ up = 0 /\ ud = 0
    /\ result = <<>> /\ reads = {}
    /\ CodecIdle /\ TransferIdle /\ PackIdle

\* LinearImage result(w, h, C); auto d = result.get<floatC>()
Construct ==
    /\ upc = "call"
    /\ result' = LinearImage(w, h, Channels(entry))
    /\ ud' = 0 /\ uy' = 0
    /\ upc' = "row"
    /\ UNCHANGED <<unpackArgs, ux, up, reads>>
    /\ UnpackFrame

\* y < h: p = src + y * bpr, x = 0
UnpackRowBegin ==
    /\ upc = "row"
    /\ uy < h
    /\ up' = RowPointer(uy, bpr)
    /\ ux' = 0
    /\ upc' = "pixel"
    /\ UNCHANGED <<unpackArgs, uy, ud, result, reads>>
    /\ UnpackFrame

\* *d++ = transform(sRGB); ++x, p += n
UnpackPixel(n) ==
    /\ upc = "pixel"
    /\ ux < w
    /\ ~(traps /\ Misaligned(up, size))
    /\ LET c == Transform(transform, Normalized(src, up, n, size, proc))
       IN  result' = [result EXCEPT !.data = Store(result.data, ud, c)]
    /\ reads' = reads \cup UNION {BytesOf(up, i, size) : i \in 0..(n - 1)}
    /\ ud' = ud + n
    /\ up' = up + n * size
    /\ ux' = ux + 1
    /\ UNCHANGED <<unpackArgs, upc, uy>>
    /\ UnpackFrame

\* the load of p[0] through a misaligned T const*, in a build whose loads
\* require alignment: the call ends with a fault and returns nothing
MisalignedLoad ==
    /\ upc = "pixel"
    /\ ux < w
    /\ traps /\ Misaligned(up, size)
    /\ upc' = "fault"
    /\ UNCHANGED <<unpackArgs, ux, uy, up, ud, result, reads>>
    /\ UnpackFrame

StepToLinear == entry = "toLinear" /\ UnpackPixel(3)

StepToLinearWithAlpha == entry = "toLinearWithAlpha" /\ UnpackPixel(4)

\* x == w: ++y
UnpackRowEnd ==
    /\ upc = "pixel"
    /\ ux >= w
    /\ uy' = uy + 1
    /\ upc' = "row"
    /\ UNCHANGED <<unpackArgs, ux, up, ud, result, reads>>
    /\ UnpackFrame

\* y == h: return result
UnpackReturn ==
    /\ upc = "row"
    /\ uy >= h
    /\ upc' = "returned"
    /\ UNCHANGED <<unpackArgs, ux, uy, up, ud, result, reads>>
    /\ UnpackFrame

NextUnpack ==
    \/ Construct
    \/ UnpackRowBegin
    \/ StepToLinear
    \/ StepToLinearWithAlpha
    \/ MisalignedLoad
    \/ UnpackRowEnd
    \/ UnpackReturn

SpecUnpack == InitUnpack /\ [][NextUnpack]_vars

(***************************************************************************)
(* Properties of the unpackers                                             *)
(***************************************************************************)
\* the pixels written so far, in the order of the loops
PixelsDone ==
    IF upc = "pixel" THEN uy * w + ux
    ELSE IF upc \in {"row", "returned"} THEN uy * w
    ELSE 0

\* the bytes of a sample of the source pixel (px, py), by the layout of the
\* specification: row py starts at py * bpr, pixels are C samples apart
SampleOffset(px, py, i) == py * bpr + (px * Channels(entry) + i) * size

\* the sample at a byte offset, as the host reads it
RawSample(off) ==
    IF size = 1 THEN src[off + 1] ELSE src[off + 1] + 256 * src[off + 2]

ProcSample(off) ==
    IF proc = "ntohs" THEN FromInt(src[off + 1] * 256 + src[off + 2])
    ELSE FromInt(RawSample(off))

\* the bytes between the end of a row's pixels and the start of the next row
PaddingBytes ==
    {py * bpr + k : py \in 0..(h - 1),
                    k \in (w * Channels(entry) * size)..(bpr - 1)}

PixelBytes ==
    UNION {{SampleOffset(px, py, i) + k : k \in 0..(size - 1)} :
              px \in 0..(w - 1), py \in 0..(h - 1),
              i \in 0..(Channels(entry) - 1)}

\* what the layout of the specification gives for pixel (px, py)
SourcePixel(px, py) ==
    [i \in 1..Channels(entry) |->
        FDiv(ProcSample(SampleOffset(px, py, i - 1)), MaxAsFloat(8 * size))]

Expected(px, py) ==
    IF transform = "identity" THEN SourcePixel(px, py)
    ELSE IF entry = "toLinear" THEN sRGBToLinear3(SourcePixel(px, py))
    ELSE sRGBToLinear4(SourcePixel(px, py))

\* the layout that the claim states, for the part of the call that has run
StrideLayout ==
    /\ reads \cap PaddingBytes = {}
    /\ \A off \in reads : off < Len(src)
    /\ upc = "pixel" => up = uy * bpr + ux * Channels(entry) * size
    /\ upc = "returned" =>
        /\ reads = PixelBytes
        /\ result.width = w /\ result.height = h
        /\ result.channels = Channels(entry)
        /\ \A px \in 0..(w - 1), py \in 0..(h - 1), i \in 1..Channels(entry) :
              result.data[(py * w + px) * Channels(entry) + i]
                  = Expected(px, py)[i]

C7_AlphaPassesThrough ==
    (entry = "toLinearWithAlpha" /\ transform = "sRGBToLinear") =>
        \A j \in 0..(PixelsDone - 1) :
            LET v == SourcePixel(j % w, j \div w)
                raw == ProcSample(SampleOffset(j % w, j \div w, 3))
            IN  /\ sRGBToLinear4(v)[4] = v[4]
                /\ result.data[j * 4 + 4] = FDiv(raw, MaxAsFloat(8 * size))

\* a returned image whose first pixel has an alpha strictly between 0 and 1
\* and a red channel that the transfer function changed
C7_Witness ==
    /\ upc = "returned"
    /\ entry = "toLinearWithAlpha" /\ transform = "sRGBToLinear"
    /\ w = 2 /\ h = 2
    /\ FLt(Zero, result.data[4]) /\ FLt(result.data[4], One)
    /\ result.data[1] # SourcePixel(0, 0)[1]

=============================================================================
